---------------------------- MODULE Spec2Model ----------------------------
(***************************************************************************)
(* Model of rust_03: a two-party chat over one TCP stream.  Each peer runs *)
(* dh_exchange (Diffie-Hellman with G = 2 and a 64-bit P, computed by      *)
(* mod_pow in u64 arithmetic), seeds an LCG with the high half of the      *)
(* shared secret, and then alternates "read a line, XOR it with the        *)
(* keystream, write" with "read the transport, XOR, display".              *)
(*                                                                         *)
(* Unsigned machine integers are wider than the integers of the model      *)
(* checker, so a u64 / u32 / u128 value is kept as the sequence of its     *)
(* bytes, least significant byte first (8, 4 or 16 bytes).                 *)
(***************************************************************************)
EXTENDS Integers, Sequences, FiniteSets, TLC

(***************************************************************************)
(* Fixed-width unsigned arithmetic on little-endian byte sequences.        *)
(***************************************************************************)
Byte == 0..255

Min(a, b) == IF a < b THEN a ELSE b

Max(a, b) == IF a > b THEN a ELSE b

\* The element of a singleton set.  { e(v) : v \in {x} } computes x once and
\* binds v to its value, where an operator argument is computed at each use.
The(S) == CHOOSE v \in S : TRUE

\* byte i (1 = least significant) of x, 0 beyond its width
Limb(x, i) == IF i <= Len(x) THEN x[i] ELSE 0

\* x zero-extended or truncated to n bytes: the `as u32` / `as u64` casts
Fit(x, n) == The({ <<>> \o [i \in 1..n |-> Limb(v, i)] : v \in {x} })

\* the value v < 2^31 written on n bytes
RECURSIVE ToLimbs(_, _)
ToLimbs(v, n) == IF n = 0 THEN <<>> ELSE <<v % 256>> \o ToLimbs(v \div 256, n - 1)

U32(v) == ToLimbs(v, 4)

U64(v) == ToLimbs(v, 8)

IsZero(x) == \A i \in 1..Len(x) : x[i] = 0

\* x < y, compared from byte i downwards
RECURSIVE LtFrom(_, _, _)
LtFrom(x, y, i) ==
    IF i = 0 THEN FALSE
    ELSE IF Limb(x, i) # Limb(y, i) THEN Limb(x, i) < Limb(y, i)
    ELSE LtFrom(x, y, i - 1)

Lt(x, y) == \E a \in {x}, b \in {y} : LtFrom(a, b, Max(Len(a), Len(b)))

\* x + y + carry from byte i on, on n bytes plus a final carry byte
RECURSIVE AddFrom(_, _, _, _, _)
AddFrom(x, y, i, n, carry) ==
    IF i > n THEN <<carry>>
    ELSE The({ <<t % 256>> \o AddFrom(x, y, i + 1, n, t \div 256) :
               t \in {Limb(x, i) + Limb(y, i) + carry} })

\* the exact sum, one byte wider than the wider operand
Add(x, y) == The({ AddFrom(a, b, 1, Max(Len(a), Len(b)), 0) : a \in {x}, b \in {y} })

\* x - y - borrow from byte i on, for x >= y, on the width of x
RECURSIVE SubFrom(_, _, _, _)
SubFrom(x, y, i, borrow) ==
    IF i > Len(x) THEN <<>>
    ELSE The({ IF t < 0 THEN <<t + 256>> \o SubFrom(x, y, i + 1, 1)
                        ELSE <<t>> \o SubFrom(x, y, i + 1, 0) :
               t \in {x[i] - Limb(y, i) - borrow} })

Sub(x, y) == The({ SubFrom(a, b, 1, 0) : a \in {x}, b \in {y} })

\* column k of the schoolbook product: the sum of x[i] * y[k + 1 - i]
RECURSIVE ColSum(_, _, _, _)
ColSum(x, y, k, i) ==
    IF i > Len(x) \/ i > k THEN 0
    ELSE (IF k + 1 - i <= Len(y) THEN x[i] * y[k + 1 - i] ELSE 0)
         + ColSum(x, y, k, i + 1)

RECURSIVE MulFrom(_, _, _, _)
MulFrom(x, y, k, carry) ==
    IF k > Len(x) + Len(y) THEN <<>>
    ELSE The({ <<t % 256>> \o MulFrom(x, y, k + 1, t \div 256) :
               t \in {ColSum(x, y, k, 1) + carry} })

\* the exact product, on Len(x) + Len(y) bytes
Mul(x, y) == The({ MulFrom(a, b, 1, 0) : a \in {x}, b \in {y} })

\* whether x does not fit n bytes
Exceeds(x, n) == \E v \in {x} : \E i \in (n + 1)..Len(v) : v[i] # 0

\* 2^k for k < 8
Pow2(k) == <<1, 2, 4, 8, 16, 32, 64, 128>>[k + 1]

\* bit j (0 = least significant) of x
Bit(x, j) == (x[(j \div 8) + 1] \div Pow2(j % 8)) % 2

\* one step of the long division of x by m: st = <<r, j>> is the remainder of
\* the bits above bit j - 1; the step takes in bit j - 1
RemStep(x, m, st) ==
    The({ IF Lt(d, m) THEN <<d, st[2] - 1>> ELSE <<Sub(d, m), st[2] - 1>> :
          d \in { Fit(AddFrom(st[1], st[1], 1, Len(m) + 1, Bit(x, st[2] - 1)), Len(m) + 1) } })

\* n steps of the long division; the halving keeps the nesting of
\* evaluations shallow
RECURSIVE RemIter(_, _, _, _)
RemIter(x, m, st, n) ==
    IF n = 0 THEN st
    ELSE IF n = 1 THEN RemStep(x, m, st)
    ELSE The({ RemIter(x, m, h, n - (n \div 2)) : h \in { RemIter(x, m, st, n \div 2) } })

\* m = 256^k for some k < Len(m): k + 1, else 0
RECURSIVE BytePower(_, _)
BytePower(m, i) ==
    IF i > Len(m) THEN 0
    ELSE IF m[i] = 0 THEN BytePower(m, i + 1)
    ELSE IF m[i] = 1 /\ \A j \in (i + 1)..Len(m) : m[j] = 0 THEN i
    ELSE 0

\* x % m by long division
LongRem(x, m) ==
    Fit(RemIter(x, m, <<Fit(<<>>, Len(m) + 1), 8 * Len(x)>>, 8 * Len(x))[1], Len(x))

\* x % m for m > 0, on the width of x: the `%` operator.  The remainder is x
\* when x < m, the low k bytes of x when m = 256^k, x - m when x < 2m, and
\* found by long division otherwise.
Rem(x, m) ==
    The({ IF Lt(a, b) THEN a
          ELSE IF BytePower(b, 1) > 0 THEN Fit(Fit(a, BytePower(b, 1) - 1), Len(a))
          ELSE The({ IF Lt(d, b) THEN d ELSE LongRem(a, b) : d \in { Sub(a, b) } }) :
          a \in {x}, b \in {m} })

\* x >> (8 * k): the `>> 24` and `>> 32` shifts
ShrBytes(x, k) == The({ <<>> \o [i \in 1..Len(v) |-> Limb(v, i + k)] : v \in {x} })

\* x >> 1 on the width of x: `exp >>= 1`
Shr1(x) ==
    The({ <<>> \o [i \in 1..Len(v) |-> (v[i] \div 2) + 128 * (Limb(v, i + 1) % 2)] : v \in {x} })

\* a ^ b on one byte, bit by bit from the top
RECURSIVE XorBits(_, _, _)
XorBits(a, b, w) ==
    IF w = 0 THEN 0
    ELSE (IF (a \div w) % 2 # (b \div w) % 2 THEN w ELSE 0)
         + XorBits(a % w, b % w, w \div 2)

Xor(a, b) == \* a ^ b
    The({ XorBits(x, y, 128) : x \in {a}, y \in {b} })

(***************************************************************************)
(* rust_03/src/main.rs: constants, LCG, mod_pow.                           *)
(***************************************************************************)
\* to_be_bytes as to_le_bytes: least significant byte first
to_le_bytes(x) == Fit(x, 8)

\* most-significant-byte-first bytes of a u64, and back
to_be_bytes(x) == <<>> \o [i \in 1..8 |-> x[9 - i]]

from_be_bytes(b) == <<>> \o [i \in 1..8 |-> b[9 - i]]

\* const P: u64 = 0xD87FA3E291B4C7F3
P == from_be_bytes(<<216, 127, 163, 226, 145, 180, 199, 243>>)

\* const G: u64 = 2
G == U64(2)

\* the LCG parameters set by LCG::new: a, c as u32 and m = 2^32 as u64
LCG_a == U32(1103515245)

LCG_c == U32(12345)

LCG_m == <<0, 0, 0, 0, 1, 0, 0, 0>>

\* LCG::new(seed): the field `next`
LCG_new(seed) == seed

\* next_state with m = 2^31, the modulus of the textbook generator
next_state_m31(next) ==
    Fit(Rem(Fit(Add(Mul(Fit(LCG_a, 8), Fit(next, 8)), Fit(LCG_c, 8)), 8),
            <<0, 0, 0, 128, 0, 0, 0, 0>>), 4)

\* the state after next_byte: ((a as u64 * next as u64 + c as u64) % m) as u32
next_state(next) ==
    Fit(Rem(Fit(Add(Mul(Fit(LCG_a, 8), Fit(next, 8)), Fit(LCG_c, 8)), 8), LCG_m), 4)

\* the byte next_byte returns: (self.next >> 24) as u8, of the new state
next_byte(next) == ShrBytes(next_state(next), 3)[1]

\* the value of a call that panicked (no u64 has this width)
PANIC == <<>>

\* x * y in u64: the wrapped product, or PANIC where the build checks overflow
mul64(x, y, checked) ==
    The({ IF checked /\ Exceeds(full, 8) THEN PANIC ELSE Fit(full, 8) :
          full \in {Mul(x, y)} })

\* one pass of the `while exp > 0` loop on st = <<result, base, exp>>; a state
\* with exp = 0 (the loop has ended) or PANIC is left as it is
pow_step(st, modulus, checked) ==
    IF st = PANIC \/ IsZero(st[3]) THEN st
    ELSE The({ IF rb = PANIC \/ bb = PANIC THEN PANIC
               ELSE <<Fit(Rem(rb, modulus), 8), Fit(Rem(bb, modulus), 8), Shr1(st[3])>> :
               rb \in { IF st[3][1] % 2 = 1 THEN mul64(st[1], st[2], checked) ELSE st[1] },
               bb \in { mul64(st[2], st[2], checked) } })

\* n passes of the loop; the halving keeps the nesting of evaluations shallow
RECURSIVE pow_iter(_, _, _, _)
pow_iter(st, modulus, checked, n) ==
    IF n = 0 THEN st
    ELSE IF n = 1 THEN pow_step(st, modulus, checked)
    ELSE The({ pow_iter(h, modulus, checked, n - (n \div 2)) :
               h \in { pow_iter(st, modulus, checked, n \div 2) } })

\* the `while exp > 0` loop of mod_pow: exp has 64 bits, so 64 passes end it
pow_loop(result, base, exp, modulus, checked) ==
    The({ IF st = PANIC THEN PANIC ELSE st[1] :
          st \in { pow_iter(<<result, base, exp>>, modulus, checked, 64) } })

\* mod_pow without its `if modulus == 1` case
mod_pow_no_guard(base, exp, modulus, checked) ==
    The({ IF IsZero(m) THEN PANIC
          ELSE pow_loop(U64(1), Fit(Rem(b, m), 8), e, m, checked) :
          b \in {base}, e \in {exp}, m \in {modulus} })

\* fn mod_pow(base, exp, modulus) -> u64; `checked` is the build's overflow
\* checking (on in the dev profile, off in release)
mod_pow(base, exp, modulus, checked) ==
    The({ IF m = U64(1) THEN U64(0)
          ELSE IF IsZero(m) THEN PANIC
          ELSE pow_loop(U64(1), Fit(Rem(b, m), 8), e, m, checked) :
          b \in {base}, e \in {exp}, m \in {modulus} })

\* the generator state after n calls of next_byte
RECURSIVE advance(_, _)
advance(next, n) ==
    IF n = 0 THEN next ELSE The({ advance(v, n - 1) : v \in { next_state(next) } })

\* xor_stream with the loop one short (`0..len - 1`): the last byte is left out
RECURSIVE xor_stream_short(_, _)
xor_stream_short(data, next) ==
    IF Len(data) <= 1 THEN <<>>
    ELSE The({ <<Xor(data[1], ShrBytes(v, 3)[1])>> \o xor_stream_short(Tail(data), v) :
               v \in { next_state(next) } })

\* `for idx in 0..len { out[idx] = data[idx] ^ keystream.next_byte() }`
RECURSIVE xor_stream(_, _)
xor_stream(data, next) ==
    IF data = <<>> THEN <<>>
    ELSE The({ <<Xor(data[1], ShrBytes(v, 3)[1])>> \o xor_stream(Tail(data), v) :
               v \in { next_state(next) } })

\* a continuation byte of a UTF-8 sequence
utf8_cont(s, i) == i <= Len(s) /\ s[i] \in 128..191

\* the length of the well-formed UTF-8 sequence at the head of s, 0 when
\* there is none: the table of core::str::from_utf8
utf8_len(s) ==
    IF s[1] < 128 THEN 1
    ELSE IF s[1] \in 194..223 THEN (IF utf8_cont(s, 2) THEN 2 ELSE 0)
    ELSE IF s[1] \in 224..239
         THEN (IF /\ utf8_cont(s, 2) /\ utf8_cont(s, 3)
                  /\ (s[1] = 224 => s[2] >= 160)
                  /\ (s[1] = 237 => s[2] <= 159)
               THEN 3 ELSE 0)
    ELSE IF s[1] \in 240..244
         THEN (IF /\ utf8_cont(s, 2) /\ utf8_cont(s, 3) /\ utf8_cont(s, 4)
                  /\ (s[1] = 240 => s[2] >= 144)
                  /\ (s[1] = 244 => s[2] <= 143)
               THEN 4 ELSE 0)
    ELSE 0

\* std::str::from_utf8(bytes).is_ok()
RECURSIVE valid_utf8(_)
valid_utf8(bytes) ==
    \/ bytes = <<>>
    \/ /\ utf8_len(bytes) > 0
       /\ valid_utf8(SubSeq(bytes, utf8_len(bytes) + 1, Len(bytes)))

\* the scalar value of the n-byte UTF-8 sequence s[i], .., s[i + n - 1]; -1
\* where that is no sequence of 1 to 4 bytes within s
code_point(s, i, n) ==
    IF n \notin 1..4 \/ i < 1 \/ i + n - 1 > Len(s) THEN -1
    ELSE IF n = 1 THEN s[i]
    ELSE IF n = 2 THEN (s[i] - 192) * 64 + (s[i + 1] - 128)
    ELSE IF n = 3 THEN (s[i] - 224) * 4096 + (s[i + 1] - 128) * 64 + (s[i + 2] - 128)
    ELSE (s[i] - 240) * 262144 + (s[i + 1] - 128) * 4096
         + (s[i + 2] - 128) * 64 + (s[i + 3] - 128)

\* char::is_whitespace: the characters with the White_Space property
is_whitespace(c) ==
    c \in (9..13) \cup {32, 133, 160, 5760} \cup (8192..8202)
           \cup {8232, 8233, 8239, 8287, 12288}

\* where the character that ends at byte i of s starts
RECURSIVE char_start(_, _)
char_start(s, i) == IF i > 1 /\ s[i] \in 128..191 THEN char_start(s, i - 1) ELSE i

\* str::trim_start: the leading whitespace characters removed
RECURSIVE trim_start(_)
trim_start(s) ==
    IF s # <<>> /\ is_whitespace(code_point(s, 1, utf8_len(s)))
    THEN trim_start(SubSeq(s, utf8_len(s) + 1, Len(s)))
    ELSE s

\* str::trim_end: the trailing whitespace characters removed
RECURSIVE trim_end(_)
trim_end(s) ==
    IF s # <<>> /\ is_whitespace(code_point(s, char_start(s, Len(s)),
                                            Len(s) + 1 - char_start(s, Len(s))))
    THEN trim_end(SubSeq(s, 1, char_start(s, Len(s)) - 1))
    ELSE s

\* trim left out: the line as read_line returned it
trim_none(s) == s

\* trim as trim_end alone
trim_trailing(s) == trim_end(s)

\* str::trim: leading and trailing whitespace removed
trim(s) == trim_end(trim_start(s))

\* displayed with the bytes shown as they are, valid text or not
displayed_raw(plaintext) == plaintext

\* std::str::from_utf8(&plaintext).unwrap_or(""): the text the "[CLIENT]" /
\* "[SERVER]" line shows
displayed(plaintext) == IF valid_utf8(plaintext) THEN plaintext ELSE <<>>

\* `let mut buffer = [0u8; 1024]`: the most one read returns
BUFFER_LEN == 1024

(***************************************************************************)
(* Bounds of the model.                                                    *)
(***************************************************************************)
\* lines each user types in a session
MaxLines == 2

\* how many of the sample private keys rand::random() draws from
NumKeys == 5

\* sample private keys: 1, 5, 7 and 13 (products below and above 64), and a
\* full-width key
KeyList ==
    << U64(1), U64(5), U64(7), U64(13),
       from_be_bytes(<<1, 35, 69, 103, 137, 171, 205, 239>>),
       U64(40), U64(64) >>

PrivKeys == { KeyList[i] : i \in 1..Min(NumKeys, Len(KeyList)) }

\* what read_line can find on standard input: "\n", "\u{a0}hi \n" (a
\* no-break space before, a space after) and a line that is not UTF-8
Lines == { <<10>>, <<194, 160, 104, 105, 32, 10>>, <<255, 10>> }

(***************************************************************************)
(* The two processes and the stream between them.                          *)
(***************************************************************************)
Peer == {"server", "client"}

Other(p) == IF p = "server" THEN "client" ELSE "server"

\* a local that is not in scope, a field that is not constructed
NONE == <<>>

VARIABLES
    overflow_checks,  \* [Peer -> BOOLEAN]: the build profile of the peer's binary
    pc,               \* where each process is: "dh_send", "dh_read", "dh_done"
                      \* (in dh_exchange), "input" (read_line), "read"
                      \* (reader.read), "done" (returned), "panicked", "killed"
    private_key,      \* locals of dh_exchange
    public_key,
    their_public,
    shared_secret,
    seed,             \* `seed` of run_server / run_client
    keystream,        \* keystream.next
    chan,             \* chan[p]: the bytes written to p and not yet read by p
    broken,           \* broken[p]: p has written to an end that was closed
    line,             \* the line the last read_line of p returned
    turns,            \* how many lines p has read
    sent,             \* the messages p encrypted and passed to write_all, in order
    rcvd,             \* the plaintexts p recovered, one per read, in order
    shown,            \* the texts p displayed, one per read, in order
    calls,            \* how many times p called keystream.next_byte
    whole,            \* every read so far returned exactly one written ciphertext
    eval              \* a function applied on its own: [op, args, ret]

vars == << overflow_checks, pc, private_key, public_key, their_public,
           shared_secret, seed, keystream, chan, broken, line, turns, sent, rcvd,
           shown, calls, whole, eval >>

dh_locals == << private_key, public_key, their_public, shared_secret >>

history == << line, turns, sent, rcvd, shown, calls, whole, eval >>

\* the process has ended and its socket is closed
Closed(p) == pc[p] \in {"done", "panicked", "killed"}

Alive(p) == ~Closed(p)

\* LoopEntry with run_client running the loop of run_server
LoopEntry_input(p) == "input"

\* where run_server / run_client enters its loop
LoopEntry(p) == IF p = "server" THEN "input" ELSE "read"

\* no function is being applied on its own
NoCall == [op |-> "none", args |-> <<>>, ret |-> <<>>]

Init ==
    /\ overflow_checks \in [Peer -> BOOLEAN]
    /\ pc = [p \in Peer |-> "dh_send"]
    /\ private_key = [p \in Peer |-> NONE]
    /\ public_key = [p \in Peer |-> NONE]
    /\ their_public = [p \in Peer |-> NONE]
    /\ shared_secret = [p \in Peer |-> NONE]
    /\ seed = [p \in Peer |-> NONE]
    /\ keystream = [p \in Peer |-> NONE]
    /\ chan = [p \in Peer |-> <<>>]
    /\ broken = [p \in Peer |-> FALSE]
    /\ line = [p \in Peer |-> <<>>]
    /\ turns = [p \in Peer |-> 0]
    /\ sent = [p \in Peer |-> <<>>]
    /\ rcvd = [p \in Peer |-> <<>>]
    /\ shown = [p \in Peer |-> <<>>]
    /\ calls = [p \in Peer |-> 0]
    /\ whole = TRUE
    /\ eval = NoCall

\* The other end of p's connection was closed after it had read every byte
\* written to it: its kernel has sent FIN, and p's reads return 0 once the
\* bytes in flight are read.
Fin(p) == Closed(Other(p)) /\ chan[Other(p)] = <<>>

\* The other end was closed with bytes unread: its kernel has reset the
\* connection, and p's reads fail once the bytes in flight are read.
Rst(p) == Closed(Other(p)) /\ chan[Other(p)] # <<>>

\* write_all by p returns Err: the connection was reset, or an earlier write
\* of p to the closed end was answered by a reset
write_err(p) == Rst(p) \/ broken[p]

\* stream.write_all(bytes) by p returning Ok: the stream buffers the bytes
\* for the other peer; the first write to an end closed by FIN is accepted
\* and its bytes are dropped there
WriteAll(p, bytes) ==
    /\ chan' = [chan EXCEPT ![Other(p)] = IF Closed(Other(p)) THEN @ ELSE @ \o bytes]
    /\ broken' = [broken EXCEPT ![p] = @ \/ Closed(Other(p))]

\* handshake_fault with the Err dropped: dh_exchange goes on to its next step
handshake_fault_ignored(at) == IF at = "dh_send" THEN "dh_read" ELSE "dh_done"

\* `.unwrap()` on the Err of write_all (at "dh_send") or of read_exact (at
\* "dh_read"): the thread panics
handshake_fault(at) == "panicked"

\* dh_exchange, lines 52-65: draw the private key, compute the public key,
\* send it
DhSend(p) ==
    /\ pc[p] = "dh_send"
    /\ \E k \in PrivKeys :
         \E pub \in { mod_pow(G, k, P, overflow_checks[p]) } :
            /\ private_key' = [private_key EXCEPT ![p] = k]
            /\ IF pub = PANIC
               THEN /\ pc' = [pc EXCEPT ![p] = "panicked"]
                    /\ UNCHANGED << public_key, chan, broken >>
               ELSE /\ public_key' = [public_key EXCEPT ![p] = pub]
                    /\ IF write_err(p)
                       THEN /\ pc' = [pc EXCEPT ![p] = handshake_fault("dh_send")]
                            /\ UNCHANGED << chan, broken >>
                       ELSE /\ WriteAll(p, to_be_bytes(pub))
                            /\ pc' = [pc EXCEPT ![p] = "dh_read"]
    /\ UNCHANGED << overflow_checks, their_public, shared_secret, seed,
                    keystream, history >>

\* dh_exchange, lines 68-79: read_exact 8 bytes (it blocks until 8 have come,
\* and fails if the stream ends or is reset before), decode, compute the
\* shared secret
DhRecv(p) ==
    /\ pc[p] = "dh_read"
    /\ \/ /\ Len(chan[p]) >= 8
          /\ chan' = [chan EXCEPT ![p] = SubSeq(@, 9, Len(@))]
          /\ \E theirs \in { from_be_bytes(SubSeq(chan[p], 1, 8)) } :
               \E secret \in { mod_pow(theirs, private_key[p], P, overflow_checks[p]) } :
                  /\ their_public' = [their_public EXCEPT ![p] = theirs]
                  /\ IF secret = PANIC
                     THEN /\ pc' = [pc EXCEPT ![p] = "panicked"]
                          /\ UNCHANGED shared_secret
                     ELSE /\ pc' = [pc EXCEPT ![p] = "dh_done"]
                          /\ shared_secret' = [shared_secret EXCEPT ![p] = secret]
       \/ /\ Len(chan[p]) < 8
          /\ Closed(Other(p))
          /\ pc' = [pc EXCEPT ![p] = handshake_fault("dh_read")]
          /\ UNCHANGED << chan, their_public, shared_secret >>
    /\ UNCHANGED << overflow_checks, private_key, public_key, seed, keystream,
                    broken, history >>

\* seed_of without the shift: the low half of the secret
seed_low(secret) == Fit(secret, 4)

\* the seed dh_exchange returns: (shared_secret >> 32) as u32
seed_of(secret) == Fit(ShrBytes(secret, 4), 4)

\* dh_exchange line 82 and the caller up to its loop: return the seed (the
\* locals of dh_exchange go out of scope), construct the LCG
DhReturn(p) ==
    /\ pc[p] = "dh_done"
    /\ seed' = [seed EXCEPT ![p] = seed_of(shared_secret[p])]
    /\ keystream' = [keystream EXCEPT ![p] = LCG_new(seed_of(shared_secret[p]))]
    /\ private_key' = [private_key EXCEPT ![p] = NONE]
    /\ public_key' = [public_key EXCEPT ![p] = NONE]
    /\ their_public' = [their_public EXCEPT ![p] = NONE]
    /\ shared_secret' = [shared_secret EXCEPT ![p] = NONE]
    /\ pc' = [pc EXCEPT ![p] = LoopEntry(p)]
    /\ UNCHANGED << overflow_checks, chan, broken, history >>

\* where the loop goes after an empty line: `continue` is the read_line of
\* the server's loop and the reader.read of the client's loop
AfterEmpty(p) == IF p = "server" THEN "input" ELSE "read"

\* how many next_byte calls sending n bytes makes: one per byte in the XOR
\* loop and one per byte in the loop that prints "Key:"
encrypt_calls(n) == n + n

\* decrypt_calls without the loop that prints "Key:"
decrypt_calls_once(n) == n

\* how many next_byte calls receiving n bytes makes: one per byte in the XOR
\* loop and one per byte in the loop that prints "Key:"
decrypt_calls(n) == n + n

\* The sending half of the loop: read_line (Err, and a panic, when the line
\* is not UTF-8), trim, skip an empty message, else encrypt, print, write_all
\* (Err, and a panic, when the connection is reset or broken)
SendTurn(p) ==
    /\ pc[p] = "input"
    /\ turns[p] < MaxLines
    /\ \E input \in Lines :
         IF ~valid_utf8(input)
         THEN /\ pc' = [pc EXCEPT ![p] = "panicked"]
              /\ UNCHANGED << keystream, chan, broken, line, turns, sent, calls >>
         ELSE \E msg \in { trim(input) } :
            /\ line' = [line EXCEPT ![p] = input]
            /\ turns' = [turns EXCEPT ![p] = @ + 1]
            /\ IF msg = <<>>
               THEN /\ pc' = [pc EXCEPT ![p] = AfterEmpty(p)]
                    /\ UNCHANGED << keystream, chan, broken, sent, calls >>
               ELSE /\ keystream' = [keystream EXCEPT ![p] = advance(@, encrypt_calls(Len(msg)))]
                    /\ calls' = [calls EXCEPT ![p] = @ + encrypt_calls(Len(msg))]
                    /\ sent' = [sent EXCEPT ![p] = Append(@, msg)]
                    /\ IF write_err(p)
                       THEN /\ pc' = [pc EXCEPT ![p] = "panicked"]
                            /\ UNCHANGED << chan, broken >>
                       ELSE /\ WriteAll(p, xor_stream(msg, keystream[p]))
                            /\ pc' = [pc EXCEPT ![p] = "read"]
    /\ UNCHANGED << overflow_checks, dh_locals, seed, rcvd, shown, whole, eval >>

\* after_read reading on until the stream ends
after_read_again(n) == IF n = 0 THEN "done" ELSE "read"

\* `if n == 0 { break; }`: where the loop goes after a read of n bytes
after_read(n) == IF n = 0 THEN "done" ELSE "input"

\* The receiving half of the loop: one reader.read into the 1024-byte
\* buffer.  It returns n >= 1 of the bytes in flight (the transport may hand
\* over only a part); with nothing in flight it returns 0 once the other end
\* has closed by FIN, and Err (a panic) once the connection is reset.  n = 0
\* breaks the loop, else the n bytes are decrypted and displayed.
RecvTurn(p) ==
    /\ pc[p] = "read"
    /\ \/ /\ chan[p] # <<>>
          /\ \E n \in 1..Min(Len(chan[p]), BUFFER_LEN) :
               /\ chan' = [chan EXCEPT ![p] = SubSeq(@, n + 1, Len(@))]
               /\ \E plaintext \in { xor_stream(SubSeq(chan[p], 1, n), keystream[p]) } :
                    /\ rcvd' = [rcvd EXCEPT ![p] = Append(@, plaintext)]
                    /\ shown' = [shown EXCEPT ![p] = Append(@, displayed(plaintext))]
               /\ keystream' = [keystream EXCEPT ![p] = advance(@, decrypt_calls(n))]
               /\ calls' = [calls EXCEPT ![p] = @ + decrypt_calls(n)]
               /\ whole' = (whole /\ n = Len(chan[p])
                                  /\ Len(rcvd[p]) < Len(sent[Other(p)])
                                  /\ n = Len(sent[Other(p)][Len(rcvd[p]) + 1]))
               /\ pc' = [pc EXCEPT ![p] = after_read(n)]
       \/ /\ chan[p] = <<>>
          /\ Fin(p)
          /\ pc' = [pc EXCEPT ![p] = after_read(0)]
          /\ UNCHANGED << chan, rcvd, shown, keystream, calls, whole >>
       \/ /\ chan[p] = <<>>
          /\ Rst(p)
          /\ pc' = [pc EXCEPT ![p] = "panicked"]
          /\ UNCHANGED << chan, rcvd, shown, keystream, calls, whole >>
    /\ UNCHANGED << overflow_checks, dh_locals, seed, broken, line, turns, sent, eval >>

\* The process of p is ended from outside (the user interrupts it): its
\* socket closes
Kill(p) ==
    /\ Alive(p)
    /\ pc' = [pc EXCEPT ![p] = "killed"]
    /\ UNCHANGED << overflow_checks, dh_locals, seed, keystream, chan, broken, history >>

\* dh_exchange lines 52-65 when the network fails under write_all, which
\* returns Err: nothing is written
DhWriteFault(p) ==
    /\ pc[p] = "dh_send"
    /\ \E k \in PrivKeys :
         \E pub \in { mod_pow(G, k, P, overflow_checks[p]) } :
            /\ pub # PANIC
            /\ private_key' = [private_key EXCEPT ![p] = k]
            /\ public_key' = [public_key EXCEPT ![p] = pub]
    /\ pc' = [pc EXCEPT ![p] = handshake_fault("dh_send")]
    /\ UNCHANGED << overflow_checks, their_public, shared_secret, seed,
                    keystream, chan, broken, history >>

\* dh_exchange lines 68-69 when the network fails under read_exact, which
\* returns Err
DhReadFault(p) ==
    /\ pc[p] = "dh_read"
    /\ pc' = [pc EXCEPT ![p] = handshake_fault("dh_read")]
    /\ UNCHANGED << overflow_checks, dh_locals, seed, keystream, chan, broken, history >>

Next ==
    \E p \in Peer :
        \/ DhSend(p)
        \/ DhWriteFault(p)
        \/ DhRecv(p)
        \/ DhReadFault(p)
        \/ DhReturn(p)
        \/ SendTurn(p)
        \/ RecvTurn(p)
        \/ Kill(p)

Spec == Init /\ [][Next]_vars

(***************************************************************************)
(* The handshake alone, on a transport that stays up: each process runs    *)
(* on, so each step of dh_exchange that can be taken is taken.             *)
(***************************************************************************)
DhNext == \E p \in Peer : DhSend(p) \/ DhRecv(p) \/ DhReturn(p)

DhSpec ==
    /\ Init
    /\ [][DhNext]_vars
    /\ \A p \in Peer : WF_vars(DhSend(p)) /\ WF_vars(DhRecv(p)) /\ WF_vars(DhReturn(p))

(***************************************************************************)
(* The handshake, with the listener going on to its chat turns while the   *)
(* connector is still in dh_exchange: every step but the chat reads.       *)
(***************************************************************************)
HsNext ==
    \E p \in Peer :
        \/ DhSend(p)
        \/ DhWriteFault(p)
        \/ DhRecv(p)
        \/ DhReadFault(p)
        \/ DhReturn(p)
        \/ SendTurn(p)
        \/ Kill(p)

HsSpec == Init /\ [][HsNext]_vars

(***************************************************************************)
(* mod_pow applied on its own to sample arguments, in both builds.         *)
(***************************************************************************)
SampleBases == { U64(2), U64(7), KeyList[5], <<255, 255, 255, 255, 255, 255, 255, 255>> }

SampleExps == { U64(0), U64(5), U64(64), KeyList[5] }

SampleModuli == { U64(1), U64(1000003), P, <<255, 255, 255, 255, 255, 255, 255, 255>> }

\* the shared secret dh_exchange computes with private key `mine` when the
\* other peer drew `theirs`: lines 57 and 75
dh_secret(mine, theirs, checked) ==
    The({ IF pub = PANIC THEN PANIC ELSE mod_pow(pub, mine, P, checked) :
          pub \in { mod_pow(G, theirs, P, checked) } })

EvalModPow ==
    /\ eval = NoCall
    /\ \E b \in SampleBases, e \in SampleExps, m \in SampleModuli, c \in BOOLEAN :
         eval' = [op |-> "mod_pow", args |-> <<b, e, m, c>>, ret |-> mod_pow(b, e, m, c)]
    /\ UNCHANGED << overflow_checks, pc, dh_locals, seed, keystream, chan,
                    broken, line, turns, sent, rcvd, shown, calls, whole >>

EvalDh ==
    /\ eval = NoCall
    /\ \E a \in PrivKeys, b \in PrivKeys, c \in BOOLEAN :
         eval' = [op |-> "dh", args |-> <<a, b, c>>,
                  ret |-> <<dh_secret(a, b, c), dh_secret(b, a, c)>>]
    /\ UNCHANGED << overflow_checks, pc, dh_locals, seed, keystream, chan,
                    broken, line, turns, sent, rcvd, shown, calls, whole >>

\* sample generator states: 0, 1, 2, 12345, 2^31 - 1, 2^31, 0xDEADBEEF, 2^32 - 1
SampleStates ==
    { U32(0), U32(1), U32(2), U32(12345), <<255, 255, 255, 127>>, <<0, 0, 0, 128>>,
      <<239, 190, 173, 222>>, <<255, 255, 255, 255>> }

\* one call of next_byte on a generator whose state is s: the new state and
\* the byte returned
EvalNextByte ==
    /\ eval = NoCall
    /\ \E s \in SampleStates :
         eval' = [op |-> "next_byte", args |-> <<s>>,
                  ret |-> <<next_state(s), next_byte(s)>>]
    /\ UNCHANGED << overflow_checks, pc, dh_locals, seed, keystream, chan,
                    broken, line, turns, sent, rcvd, shown, calls, whole >>

FnInit == Init /\ overflow_checks = [p \in Peer |-> FALSE]

FnNext == EvalModPow \/ EvalDh \/ EvalNextByte

FnSpec == FnInit /\ [][FnNext]_vars


(***************************************************************************)
(* Properties.                                                             *)
(***************************************************************************)
\* the process is in its chat loop
InLoop(p) == pc[p] \in {"input", "read"}

\* the sum of the lengths of the byte strings of a log
RECURSIVE TotalLen(_)
TotalLen(log) == IF log = <<>> THEN 0 ELSE Len(log[1]) + TotalLen(Tail(log))

\* byte k of a line, 0 beyond its end
At(l, k) == IF k \in 1..Len(l) THEN l[k] ELSE 0

\* the length of the encoding of a White_Space character that starts at byte
\* i of a line, 0 when none does: U+0009..000D, U+0020; U+0085, U+00A0;
\* U+1680, U+2000..200A, U+2028, U+2029, U+202F, U+205F, U+3000
WsLenAt(l, i) ==
    IF At(l, i) \in (9..13) \cup {32} THEN 1
    ELSE IF At(l, i) = 194 /\ At(l, i + 1) \in {133, 160} THEN 2
    ELSE IF \/ (At(l, i) = 225 /\ At(l, i + 1) = 154 /\ At(l, i + 2) = 128)
            \/ (At(l, i) = 226 /\ At(l, i + 1) = 128
                   /\ At(l, i + 2) \in (128..138) \cup {168, 169, 175})
            \/ (At(l, i) = 226 /\ At(l, i + 1) = 129 /\ At(l, i + 2) = 159)
            \/ (At(l, i) = 227 /\ At(l, i + 1) = 128 /\ At(l, i + 2) = 128)
         THEN 3
    ELSE 0

\* the positions of the bytes of a line that are not part of a whitespace
\* character
TextAt(l) ==
    { j \in 1..Len(l) : \A i \in (j - 2)..j : WsLenAt(l, i) <= j - i }

FirstText(l) == CHOOSE i \in TextAt(l) : \A j \in TextAt(l) : i <= j

LastText(l) == CHOOSE i \in TextAt(l) : \A j \in TextAt(l) : i >= j

\* C1: with equal seeds, as long as every read has returned one whole
\* ciphertext, each plaintext a peer recovered is the plaintext the other peer
\* encrypted, in order, and the two generator states are equal whenever both
\* peers are in their loops and no ciphertext is in flight.
C1_RoundTrip ==
    (whole /\ seed["server"] = seed["client"]) =>
        /\ \A p \in Peer : \A i \in 1..Len(rcvd[p]) :
              /\ i <= Len(sent[Other(p)])
              /\ rcvd[p][i] = sent[Other(p)][i]
        /\ ( /\ InLoop("server") /\ InLoop("client")
             /\ chan["server"] = <<>> /\ chan["client"] = <<>> )
           => keystream["server"] = keystream["client"]

\* a message went each way and came out as written, from a non-zero seed
C1_Witness ==
    /\ whole
    /\ seed["server"] = U32(8) /\ seed["client"] = U32(8)
    /\ rcvd["client"] = << <<104, 105>> >>
    /\ rcvd["server"] = << <<104, 105>> >>
    /\ chan["server"] = <<>> /\ chan["client"] = <<>>
    /\ InLoop("server") /\ InLoop("client")

\* C2: the two peers are never both blocked in reader.read with nothing in
\* flight in either direction.
C2_NeverBothBlocked ==
    ~ ( /\ pc["server"] = "read" /\ pc["client"] = "read"
        /\ chan["server"] = <<>> /\ chan["client"] = <<>> )

\* C3: for all private keys a and b, mod_pow(mod_pow(G, a, P), b, P) and
\* mod_pow(mod_pow(G, b, P), a, P) are values, and equal.
C3_DhAgreement ==
    eval.op = "dh" => /\ eval.ret[1] # PANIC
                      /\ eval.ret[2] # PANIC
                      /\ eval.ret[1] = eval.ret[2]

\* base^exp mod modulus with products of double width: the mathematical value
math_step(st, modulus) ==
    IF IsZero(st[3]) THEN st
    ELSE << IF st[3][1] % 2 = 1 THEN Fit(Rem(Mul(st[1], st[2]), modulus), 8) ELSE st[1],
            Fit(Rem(Mul(st[2], st[2]), modulus), 8),
            Shr1(st[3]) >>

RECURSIVE math_iter(_, _, _)
math_iter(st, modulus, n) ==
    IF n = 0 THEN st
    ELSE IF n = 1 THEN math_step(st, modulus)
    ELSE The({ math_iter(h, modulus, n - (n \div 2)) :
               h \in { math_iter(st, modulus, n \div 2) } })

math_pow(base, exp, modulus) ==
    math_iter(<<Fit(Rem(U64(1), modulus), 8), Fit(Rem(base, modulus), 8), exp>>,
              modulus, 64)[1]

\* C4: for every base, exponent and modulus > 1, mod_pow returns
\* base^exponent mod modulus.
C4_MathValue ==
    (eval.op = "mod_pow" /\ Lt(U64(1), eval.args[3]))
        => eval.ret = math_pow(eval.args[1], eval.args[2], eval.args[3])

\* C5: a peer has called next_byte once for each byte it has encrypted or
\* decrypted, so its k-th byte used the k-th output of its generator.
C5_OneCallPerByte ==
    \A p \in Peer : calls[p] = TotalLen(sent[p]) + TotalLen(rcvd[p])

\* C6: a turn whose line is empty after trimming (all whitespace) writes
\* nothing to the transport and leaves the peer's generator state unchanged.
C6_EmptyLineNoEffect ==
    [][ \A p \in Peer :
          ( /\ turns'[p] = turns[p] + 1
            /\ TextAt(line'[p]) = {} )
          => (chan' = chan /\ keystream'[p] = keystream[p]) ]_vars

\* a peer in its loop has just read an empty line
C6_Witness ==
    \E p \in Peer :
        /\ InLoop(p) /\ turns[p] >= 1 /\ line[p] = <<10>>
        /\ keystream[p] # NONE /\ sent[p] = <<>>

\* C7: on a transport that stays up, with every enabled step of dh_exchange
\* eventually taken, both peers eventually return from dh_exchange.
C7_BothReturn == <>(\A p \in Peer : seed[p] # NONE)

\* C8: once both peers have returned from dh_exchange their seeds are equal,
\* and the seed a peer returns is the high 32 bits (bytes 5..8, counted from
\* the least significant) of the shared secret it computed.
C8_SeedsAgree ==
    /\ []((seed["server"] # NONE /\ seed["client"] # NONE)
              => seed["server"] = seed["client"])
    /\ [][ \A p \in Peer :
             (pc[p] = "dh_done" /\ pc'[p] # "dh_done" /\ pc'[p] # "killed")
             => seed'[p] = SubSeq(shared_secret[p], 5, 8) ]_vars

\* both peers have returned, with a seed that is not zero
C8_Witness ==
    /\ seed["server"] = U32(8) /\ seed["client"] = U32(8)
    /\ InLoop("server") /\ InLoop("client")

\* the other peer completed the handshake and has since closed
ClosedInChat(p) == Closed(p) /\ seed[p] # NONE

\* p takes a step of its own (it is not ended from outside)
Steps(p) == pc'[p] # pc[p] /\ pc'[p] # "killed"

\* C9: after the other peer closed during the chat, the read of the partner
\* that finds no ciphertext in flight returns zero bytes and the partner's
\* loop ends by break, never in a panic.
C9_NextReadIsZero ==
    [][ \A p \in Peer :
          (pc[p] = "read" /\ chan[p] = <<>> /\ ClosedInChat(Other(p)) /\ Steps(p))
          => pc'[p] = "done" ]_vars

\* C10 as stated: the message of a turn is the line without its trailing
\* whitespace, and the turn is skipped exactly when that leaves nothing.
C10_TrailingOnly ==
    [][ \A p \in Peer :
          turns'[p] = turns[p] + 1 =>
             IF TextAt(line'[p]) = {}
             THEN sent'[p] = sent[p]
             ELSE sent'[p] = Append(sent[p], SubSeq(line'[p], 1, LastText(line'[p]))) ]_vars

\* C10 amended: the message of a turn is the line without its leading and its
\* trailing whitespace, and the turn is skipped exactly when that leaves
\* nothing.
C10_BothEnds ==
    [][ \A p \in Peer :
          turns'[p] = turns[p] + 1 =>
             IF TextAt(line'[p]) = {}
             THEN sent'[p] = sent[p]
             ELSE sent'[p] = Append(sent[p],
                               SubSeq(line'[p], FirstText(line'[p]), LastText(line'[p]))) ]_vars

\* a line with leading and trailing whitespace was sent as its text alone
C10_Witness ==
    \E p \in Peer :
        /\ line[p] = <<194, 160, 104, 105, 32, 10>>
        /\ sent[p] # <<>>
        /\ sent[p][Len(sent[p])] = <<104, 105>>

\* the handshake of p has not read the other peer's frame yet
BeforeRead(p) == pc[p] \in {"dh_send", "dh_read"}

\* C11: each peer's dh_exchange writes one frame of exactly 8 bytes, the
\* public key it computed most significant byte first, and reads exactly the
\* first 8 bytes written to it; the value it decodes is the public key the
\* other peer computed, also when chat ciphertext of the other peer is queued
\* behind the frame before it reads.
C11_KeyFrames ==
    /\ [](\A p \in Peer :
            /\ (their_public[p] # NONE /\ public_key[Other(p)] # NONE)
                  => their_public[p] = public_key[Other(p)]
            /\ (BeforeRead(p) /\ public_key[Other(p)] # NONE /\ Len(chan[p]) >= 8)
                  => from_be_bytes(SubSeq(chan[p], 1, 8)) = public_key[Other(p)])
    /\ [][ \A p \in Peer :
             /\ (pc[p] = "dh_send" /\ pc'[p] = "dh_read" /\ Alive(Other(p)))
                   => /\ Len(chan'[Other(p)]) = Len(chan[Other(p)]) + 8
                      /\ SubSeq(chan'[Other(p)], 1, Len(chan[Other(p)])) = chan[Other(p)]
                      /\ from_be_bytes(SubSeq(chan'[Other(p)], Len(chan[Other(p)]) + 1,
                                               Len(chan[Other(p)]) + 8)) = public_key'[p]
             /\ (pc[p] \in {"dh_read", "dh_done"} /\ Steps(p))
                   => chan'[Other(p)] = chan[Other(p)]
             /\ (pc[p] = "dh_read" /\ chan'[p] # chan[p] /\ Steps(p))
                   => /\ Len(chan[p]) >= 8
                      /\ chan'[p] = SubSeq(chan[p], 9, Len(chan[p]))
                      /\ their_public'[p] = from_be_bytes(SubSeq(chan[p], 1, 8))
             /\ (BeforeRead(p) /\ BeforeRead(p)' /\ Len(chan[p]) >= 8)
                   => SubSeq(chan'[p], 1, 8) = SubSeq(chan[p], 1, 8) ]_vars

\* the connector has decoded the listener's key 2^5 while the listener's first
\* chat ciphertext, written after its handshake, is still queued
C11_Witness ==
    /\ pc["client"] = "dh_done"
    /\ their_public["client"] = U64(32)
    /\ Len(sent["server"]) = 1
    /\ Len(chan["client"]) = Len(sent["server"][1])

\* C12: a peer whose handshake read finds the connection closed before 8
\* bytes, or whose handshake write or read faults, panics there; a panicked
\* peer has no seed and no LCG, never enters the chat loop, and takes no
\* further step (nothing is retried, nothing more is written).
C12_HandshakeFaultFatal ==
    [][ \A p \in Peer :
          /\ (pc[p] = "dh_send" /\ Steps(p) /\ Alive(Other(p))
                 /\ chan'[Other(p)] = chan[Other(p)])
                => pc'[p] = "panicked"
          /\ (pc[p] = "dh_read" /\ Steps(p) /\ chan'[p] = chan[p])
                => pc'[p] = "panicked"
          /\ (pc[p] \in {"dh_send", "dh_read", "dh_done"} /\ pc'[p] = "panicked")
                => (seed'[p] = NONE /\ keystream'[p] = NONE)
          /\ pc[p] = "panicked"
                => /\ pc'[p] = "panicked"
                   /\ seed'[p] = seed[p] /\ keystream'[p] = keystream[p]
                   /\ sent'[p] = sent[p] /\ rcvd'[p] = rcvd[p]
                   /\ Len(chan'[Other(p)]) <= Len(chan[Other(p)]) ]_vars

\* a peer panicked in read_exact (it had sent its key and decoded none) after
\* the other peer was ended before writing its frame
C12_Witness ==
    \E p \in Peer :
        /\ pc[p] = "panicked" /\ public_key[p] # NONE /\ their_public[p] = NONE
        /\ pc[Other(p)] = "killed" /\ public_key[Other(p)] = NONE
        /\ seed[p] = NONE

\* (a * s + c) mod 2^32 in wrapping 32-bit arithmetic
math_lcg(s) == Fit(Add(Fit(Mul(LCG_a, s), 4), LCG_c), 4)

\* C14: for every 32-bit state s, next_byte sets the state to
\* (1103515245 * s + 12345) mod 2^32 and returns bits 31..24 of the new state;
\* from state 0 the new state is 12345 = 0x00003039 and the byte is 0x00.
C14_NextByte ==
    eval.op = "next_byte" =>
        /\ eval.ret[1] = math_lcg(eval.args[1])
        /\ eval.ret[2] = eval.ret[1][4]
        /\ (eval.args[1] = <<0, 0, 0, 0>>) => (eval.ret = << <<57, 48, 0, 0>>, 0 >>)

\* next_byte was called on a generator seeded with 0
C14_Witness ==
    /\ eval.op = "next_byte"
    /\ eval.args = << <<0, 0, 0, 0>> >>
    /\ eval.ret = << <<57, 48, 0, 0>>, 0 >>

\* C16: mod_pow(base, exponent, 1) is 0 for every base and exponent.
C16_ModulusOne ==
    (eval.op = "mod_pow" /\ eval.args[3] = <<1, 0, 0, 0, 0, 0, 0, 0>>)
        => eval.ret = <<0, 0, 0, 0, 0, 0, 0, 0>>

\* mod_pow was called with modulus 1 and exponent 0 (the loop has no pass)
C16_Witness ==
    /\ eval.op = "mod_pow"
    /\ eval.args[2] = <<0, 0, 0, 0, 0, 0, 0, 0>>
    /\ eval.args[3] = <<1, 0, 0, 0, 0, 0, 0, 0>>
    /\ eval.ret = <<0, 0, 0, 0, 0, 0, 0, 0>>

\* the last entry of a log that is not empty
LastOf(log) == log[Len(log)]

\* p has decrypted the bytes of a read in this step
Received(p) == Len(rcvd'[p]) = Len(rcvd[p]) + 1

\* C13: a received message whose decrypted bytes are not valid text is
\* displayed as the empty string, and the receiver goes on as for a valid
\* message: after either kind it has called next_byte twice per byte and is at
\* its read_line; it has not terminated.
C13_InvalidTextShownEmpty ==
    /\ [](\A p \in Peer :
            /\ Len(shown[p]) = Len(rcvd[p])
            /\ \A i \in 1..Len(rcvd[p]) :
                  shown[p][i] = IF valid_utf8(rcvd[p][i]) THEN rcvd[p][i] ELSE <<>>)
    /\ [][ \A p \in Peer :
             Received(p) =>
                /\ pc'[p] = "input"
                /\ calls'[p] = calls[p] + 2 * Len(LastOf(rcvd'[p]))
                /\ keystream'[p] = advance(keystream[p], 2 * Len(LastOf(rcvd'[p]))) ]_vars

\* a peer displayed "" for bytes that are not valid text, has since taken
\* its read_line turn and is at its next read
C13_Witness ==
    \E p \in Peer :
        /\ rcvd[p] # <<>>
        /\ ~valid_utf8(LastOf(rcvd[p]))
        /\ LastOf(shown[p]) = <<>>
        /\ pc[p] = "read"

\* C15: in both directions the bytes of ciphertext written are as many as the
\* bytes of the trimmed lines sent, and the bytes of plaintext recovered are
\* as many as the bytes read: what is queued for a peer in its chat loop and
\* what it has recovered add up to what the other peer has sent.
C15_LengthsAgree ==
    \A p \in Peer :
        (Alive(p) /\ keystream[p] # NONE)
            => Len(chan[p]) + TotalLen(rcvd[p]) = TotalLen(sent[Other(p)])

\* a two-byte line went each way; the second is still queued
C15_Witness ==
    /\ sent["server"] = << <<104, 105>> >>
    /\ rcvd["client"] = << <<104, 105>> >>
    /\ sent["client"] = << <<104, 105>> >>
    /\ Len(chan["server"]) = 2
    /\ pc["server"] = "read"

\* how many of the first i entries of a log end beyond the first n bytes
RECURSIVE EndBeyond(_, _, _)
EndBeyond(log, i, n) ==
    IF i = 0 THEN 0
    ELSE (IF TotalLen(SubSeq(log, 1, i)) > n THEN 1 ELSE 0) + EndBeyond(log, i - 1, n)

\* the chat messages written to p that p has not read to their end
Unread(p) == EndBeyond(sent[Other(p)], Len(sent[Other(p)]), TotalLen(rcvd[p]))

\* chat messages were written in turn, the listener first, and at most one is
\* unread in each direction
Alternating ==
    /\ Len(sent["client"]) <= Len(sent["server"])
    /\ Len(sent["server"]) <= Len(sent["client"]) + 1
    /\ \A p \in Peer : Unread(p) <= 1

\* C18 as stated: chat ciphertexts alternate in direction, the listener's
\* first, and at most one chat message is unread at any time, whatever the
\* users type.
C18_StrictAlternation == Alternating

\* C18 amended: a peer writes a chat message only after a read that returned
\* bytes (the listener's first message aside); and as long as every read has
\* returned exactly one whole ciphertext, chat ciphertexts alternate in
\* direction, the listener's first, with at most one unread at any time.
C18_AlternationOfWholeReads ==
    /\ Len(sent["server"]) <= Len(rcvd["server"]) + 1
    /\ Len(sent["client"]) <= Len(rcvd["client"])
    /\ whole => Alternating

\* three messages went listener, connector, listener, each read whole
C18_Witness ==
    /\ whole
    /\ Len(sent["server"]) = 2 /\ Len(rcvd["client"]) = 2
    /\ Len(sent["client"]) = 1 /\ Len(rcvd["server"]) = 1

\* C19: a receive turn is one read of at most 1024 bytes; the bytes the read
\* returned, and only those, are decrypted as one message, what is left of
\* the ciphertext stays queued for a later receive turn, and the peer goes to
\* its read_line whether or not bytes are left.
C19_OneReadOneMessage ==
    [][ \A p \in Peer :
          Received(p) =>
             \E n \in { Len(chan[p]) - Len(chan'[p]) } :
                /\ n \in 1..Min(Len(chan[p]), BUFFER_LEN)
                /\ rcvd'[p] = Append(rcvd[p], xor_stream(SubSeq(chan[p], 1, n), keystream[p]))
                /\ chan'[p] = SubSeq(chan[p], n + 1, Len(chan[p]))
                /\ pc'[p] = "input" ]_vars

\* the connector read the listener's one two-byte message in two receive
\* turns, with a read_line between them
C19_Witness ==
    /\ Len(sent["server"]) = 1
    /\ Len(sent["server"][1]) = 2
    /\ Len(rcvd["client"]) = 2
    /\ Len(rcvd["client"][1]) = 1
    /\ turns["client"] >= 1

=============================================================================
